---- MODULE Spec2Model ----
(***************************************************************************)
(* Versioned containers of openedx-learning: the units API                 *)
(* (apps/authoring/units/api.py) on top of the container models            *)
(* (apps/authoring/containers/models.py).                                  *)
(*                                                                         *)
(* The committed database is the record db; every editor runs one API call *)
(* at a time inside a transaction whose uncommitted writes are             *)
(* txn[p].staged; out is the outcome of the latest resolution or creation. *)
(***************************************************************************)
EXTENDS Integers, Sequences, FiniteSets, TLC

VARIABLES db, txn, out

vars == <<db, txn, out>>

----------------------------------------------------------------------------
(* Bounds *)

MaxVersionNum == 2
MaxRows == 1

Editors == {"e1", "e2"}
UnitKeys == {"u1"}
Components == {"a"}
MissingPk == "zz"
Titles == {"t1"}

PkInputs == Components \cup {MissingPk}

(* version = models.ForeignKey(..., null=True): None, the unpinned reference *)
NULL == [entity |-> "none", version_num |-> 0]

RECURSIVE SeqsUpTo(_, _)
SeqsUpTo(S, n) ==
    IF n = 0 THEN {<<>>}
    ELSE LET shorter == SeqsUpTo(S, n - 1)
         IN  shorter \cup {Append(s, x) : s \in {t \in shorter : Len(t) = n - 1}, x \in S}

MaxOf(S) == IF S = {} THEN 0 ELSE CHOOSE m \in S : \A x \in S : x <= m

----------------------------------------------------------------------------
(* The tables *)

EmptyWrites ==
    [ents |-> {}, units |-> {}, pevs |-> {}, segs |-> {}, rows |-> {},
     cvs |-> {}, uvs |-> {}, svs |-> {}, variants |-> {},
     draft |-> {}, published |-> {}]

(* A pointer table holds at most one version per entity: a write replaces it. *)
SetPointers(old, new) ==
    {x \in old : \A y \in new : y.entity # x.entity} \cup new

Apply(d, w) ==
    [ents |-> d.ents \cup w.ents,
     units |-> d.units \cup w.units,
     pevs |-> d.pevs \cup w.pevs,
     segs |-> d.segs \cup w.segs,
     rows |-> d.rows \cup w.rows,
     cvs |-> d.cvs \cup w.cvs,
     uvs |-> d.uvs \cup w.uvs,
     svs |-> d.svs \cup w.svs,
     variants |-> d.variants \cup w.variants,
     draft |-> SetPointers(d.draft, w.draft),
     published |-> SetPointers(d.published, w.published)]

(* with atomic(): a write made inside the block is not committed by itself *)
AutocommitWrite(committed, staged, w) ==
    [committed |-> Apply(committed, w), staged |-> staged]

AtomicWrite(committed, staged, w) ==
    [committed |-> committed, staged |-> Apply(staged, w)]

(* What a statement inside the transaction reads: committed data and its own writes *)
View(p) == Apply(db, txn[p].staged)

(* out: the outcome of the latest resolution, none since the store changed *)
NoOutput == [root |-> <<"none", 0>>, mode |-> "none", policy |-> {},
             error |-> "none", entries |-> <<>>]

Idle == [pc |-> "idle", op |-> "none", unit |-> "none", num |-> 0,
         title |-> "none", pks |-> <<>>, seg |-> <<"none", 0>>, staged |-> EmptyWrites]

----------------------------------------------------------------------------
Init ==
    /\ db = [EmptyWrites EXCEPT !.ents = Components,
                                !.pevs = {[entity |-> c, version_num |-> 1] : c \in Components},
                                !.draft = {[entity |-> c, version_num |-> 1] : c \in Components}]
    /\ txn = [p \in Editors |-> Idle]
    /\ out = NoOutput

(* Statements of the API functions *)

VersionNums(d, c) == {v.version_num : v \in {x \in d.cvs : x.container = c}}

(* create_next_container_version: the number after the latest one *)
SkippingVersionNum(d, c) == 2 + MaxOf(VersionNums(d, c))

NextVersionNum(d, c) == 1 + MaxOf(VersionNums(d, c))

(* unique (container, version_num): an insert of a taken number is refused *)
NoConflict(d, c, n) == FALSE

VersionConflict(d, c, n) == \E v \in d.cvs : v.container = c /\ v.version_num = n

(* entity = models.ForeignKey(PublishableEntity): the target has to exist *)
AnyTarget(d, pks) == FALSE

MissingTarget(d, pks) == \E i \in 1..Len(pks) : pks[i] \notin d.ents

(* A Segment's primary key is opaque. An uncommitted Segment is named by the
   editor whose transaction holds it, a committed one by the version that owns
   it: Commit renames. *)
SegmentOf(c, n) == <<c, n>>

(* A changed membership goes to a new Segment; the rows of an old one stay *)
ReusedSegment(p, c) ==
    LET mine == {v \in db.cvs : v.container = c}
    IN  IF mine = {} THEN <<p, 0>>
        ELSE (CHOOSE v \in mine : \A w \in mine : w.version_num <= v.version_num).seg

NewSegment(p, c) == <<p, 0>>

Renamed(w, p, seg) ==
    LET R(x) == IF x = <<p, 0>> THEN seg ELSE x
    IN  [w EXCEPT
            !.segs = {R(x) : x \in w.segs},
            !.rows = {[r EXCEPT !.segment = R(r.segment)] : r \in w.rows},
            !.cvs = {[v EXCEPT !.seg = R(v.seg)] : v \in w.cvs},
            !.uvs = {[u EXCEPT !.container_entity_version.seg =
                                    R(u.container_entity_version.seg)] : u \in w.uvs}]

(* order_num: the position of a member, 0..n-1 in input order; version None *)
RowsFor(seg, pks) ==
    {[segment |-> seg, order_num |-> i - 1, entity |-> pks[i], version |-> NULL] :
        i \in 1..Len(pks)}

Write(p, w, pc2, changes) ==
    LET r == AtomicWrite(db, txn[p].staged, w)
    IN  /\ db' = r.committed
        /\ txn' = [txn EXCEPT ![p] = [changes EXCEPT !.pc = pc2, !.staged = r.staged]]

(* An exception leaves the atomic block: its writes are rolled back *)
Rollback(p) ==
    /\ txn' = [txn EXCEPT ![p] = Idle]
    /\ db' = db

(* An argument is bound in the step that first reads it: until then its value
   is not part of the state (num, title and pks below). *)
Call(p, op, unit, pc2) ==
    /\ txn[p].pc = "idle"
    /\ txn' = [txn EXCEPT ![p] = [Idle EXCEPT !.pc = pc2, !.op = op, !.unit = unit]]
    /\ UNCHANGED <<db, out>>

create_unit(p) ==
    \E key \in UnitKeys : Call(p, "create_unit", key, "container")

create_unit_and_version(p) ==
    \E key \in UnitKeys : Call(p, "create_unit_and_version", key, "container")

create_unit_version(p) ==
    \E unit \in db.units : Call(p, "create_unit_version", unit, "list")

create_next_unit_version(p) ==
    \E unit \in db.units : Call(p, "create_next_unit_version", unit, "list")

(* container_api.create_container: the entity and its container *)
StageContainer(p) ==
    /\ txn[p].pc = "container"
    /\ UNCHANGED out
    /\ IF txn[p].unit \in View(p).ents
       THEN Rollback(p)
       ELSE Write(p, [EmptyWrites EXCEPT !.ents = {txn[p].unit}], "unitrow", txn[p])

(* Unit.objects.create *)
StageUnit(p) ==
    /\ txn[p].pc = "unitrow"
    /\ UNCHANGED out
    /\ Write(p, [EmptyWrites EXCEPT !.units = {txn[p].unit}],
             IF txn[p].op = "create_unit" THEN "commit" ELSE "list", txn[p])

(* publishable_entities_pk, [] in create_unit_and_version *)
PksArgs(op) ==
    IF op = "create_unit_and_version" THEN {<<>>} ELSE SeqsUpTo(PkInputs, MaxRows)

(* version_num: 1 in create_unit_and_version, the caller's in create_unit_version *)
NumArgs(op) ==
    IF op = "create_unit_and_version" THEN {1} ELSE 1..MaxVersionNum

(* the list of the new version and its rows *)
StageList(p) ==
    /\ txn[p].pc = "list"
    /\ UNCHANGED out
    /\ \E pks \in PksArgs(txn[p].op) :
        IF MissingTarget(View(p), pks)
        THEN Rollback(p)
        ELSE LET seg == NewSegment(p, txn[p].unit)
             IN  Write(p, [EmptyWrites EXCEPT !.segs = {seg},
                                              !.rows = RowsFor(seg, pks)],
                       "cv", [txn[p] EXCEPT !.seg = seg, !.pks = pks])

(* the container version, under its number *)
StageVersion(p) ==
    /\ txn[p].pc = "cv"
    /\ UNCHANGED out
    /\ \E title \in Titles, num \in NumArgs(txn[p].op) :
        LET c == txn[p].unit
            n == IF txn[p].op = "create_next_unit_version"
                 THEN NextVersionNum(View(p), c) ELSE num
            cv == [container |-> c, version_num |-> n, title |-> title,
                   created_by |-> p, seg |-> txn[p].seg]
        IN  /\ n <= MaxVersionNum
            /\ IF VersionConflict(View(p), c, n)
               THEN Rollback(p)
               ELSE Write(p, [EmptyWrites EXCEPT
                                 !.pevs = {[entity |-> c, version_num |-> n]},
                                 !.cvs = {cv},
                                 !.draft = {[entity |-> c, version_num |-> n]}],
                          "uv", [txn[p] EXCEPT !.num = n, !.title = title])

StagedVersion(p) ==
    [container |-> txn[p].unit, version_num |-> txn[p].num, title |-> txn[p].title,
     created_by |-> p, seg |-> txn[p].seg]

(* UnitVersion.objects.create *)
StageUnitVersion(p) ==
    /\ txn[p].pc = "uv"
    /\ UNCHANGED out
    /\ Write(p, [EmptyWrites EXCEPT
                    !.uvs = {[unit |-> txn[p].unit,
                              container_entity_version |-> StagedVersion(p)]}],
             "commit", txn[p])

(* The atomic block ends: everything staged is committed, or a number or key
   that another transaction committed meanwhile makes the whole block fail *)
Commit(p) ==
    /\ txn[p].pc = "commit"
    /\ UNCHANGED out
    /\ IF \/ \E v \in txn[p].staged.cvs : VersionConflict(db, v.container, v.version_num)
          \/ txn[p].staged.ents \cap db.ents # {}
       THEN Rollback(p)
       ELSE /\ db' = Apply(db, Renamed(txn[p].staged, p,
                                        SegmentOf(txn[p].unit, txn[p].num)))
            /\ txn' = [txn EXCEPT ![p] = Idle]

(* Any statement may raise *)
Abort(p) ==
    /\ txn[p].pc # "idle"
    /\ UNCHANGED out
    /\ Rollback(p)

Next ==
    \E p \in Editors :
        \/ create_unit(p)
        \/ create_unit_and_version(p)
        \/ create_unit_version(p)
        \/ create_next_unit_version(p)
        \/ StageContainer(p)
        \/ StageUnit(p)
        \/ StageList(p)
        \/ StageVersion(p)
        \/ StageUnitVersion(p)
        \/ Commit(p)
        \/ Abort(p)

Spec == Init /\ [][Next]_vars

----------------------------------------------------------------------------
(* Resolution of a list: rows in order_num order, each to one version *)

MaxEntityVersions == 2
MaxListLen == 2

Targets == {"a", "b"}
Modes == {"Draft", "Published"}

(* "a value of None (null) to represent an unpinned reference" *)
NeverPinned(row) == FALSE

AlwaysPinned(row) == TRUE

IsPinned(row) == row.version # NULL

(* "The order_num field is used to determine the order of the members" *)
RowAfter(r1, r2) == r1.order_num > r2.order_num

RowBefore(r1, r2) == r1.order_num < r2.order_num

RECURSIVE InOrder(_)
InOrder(rows) ==
    IF rows = {} THEN <<>>
    ELSE LET first == CHOOSE r \in rows : \A x \in rows \ {r} : RowBefore(r, x)
         IN  <<first>> \o InOrder(rows \ {first})

SegmentRows(d, seg) == InOrder({r \in d.rows : r.segment = seg})

Pointer(table, e) ==
    IF \E x \in table : x.entity = e
    THEN CHOOSE x \in table : x.entity = e
    ELSE NULL

(* the version one row stands for: its pin, else the target's pointer of the mode *)
RowVersion(d, row, mode) ==
    IF IsPinned(row) THEN row.version
    ELSE Pointer(IF mode = "Draft" THEN d.draft ELSE d.published, row.entity)

RECURSIVE ResolveRows(_, _, _)
ResolveRows(d, rows, mode) ==
    IF rows = <<>> THEN [error |-> "none", entries |-> <<>>]
    ELSE LET row == Head(rows)
             v == RowVersion(d, row, mode)
             rest == ResolveRows(d, Tail(rows), mode)
         IN  IF v = NULL /\ mode = "Draft"
             THEN [error |-> "InconsistentDraftError", entries |-> <<>>]
             ELSE IF rest.error # "none" THEN rest
             ELSE IF v = NULL THEN rest
             ELSE [rest EXCEPT !.entries =
                        <<[position |-> row.order_num,
                           target_entity |-> row.entity,
                           resolved_version |-> v]>> \o @]

(* shallow resolve of a container version *)
Resolve(d, cv, mode) == ResolveRows(d, SegmentRows(d, cv.seg), mode)

PinnedRowChoices ==
    {[entity |-> e, version |-> [entity |-> e, version_num |-> n]] :
        e \in Targets, n \in 1..MaxEntityVersions}

RowChoices == PinnedRowChoices \cup {[entity |-> e, version |-> NULL] : e \in Targets}

ListRows(seg, choices) ==
    {[segment |-> seg, order_num |-> i - 1, entity |-> choices[i].entity,
      version |-> choices[i].version] : i \in 1..Len(choices)}

PointerTables(allowNone) ==
    LET options(e) == {[entity |-> e, version_num |-> n] : n \in 1..MaxEntityVersions}
                        \cup (IF allowNone THEN {NULL} ELSE {})
    IN  {{pa, pb} \ {NULL} : pa \in options("a"), pb \in options("b")}

RootVersion == [container |-> "u1", version_num |-> 1, title |-> "t1",
                created_by |-> "e1", seg |-> SegmentOf("u1", 1)]

(* a store with one unit version whose list is any valid list over two
   components, each with its versions and any draft and published pointers *)
ResolveInit ==
    /\ txn = [p \in Editors |-> Idle]
    /\ out = NoOutput
    /\ \E choices \in SeqsUpTo(RowChoices, MaxListLen),
          dr \in PointerTables(TRUE), pu \in PointerTables(TRUE) :
        db = [ents |-> Targets \cup {"u1"},
              units |-> {"u1"},
              pevs |-> {[entity |-> e, version_num |-> n] :
                            e \in Targets, n \in 1..MaxEntityVersions}
                        \cup {[entity |-> "u1", version_num |-> 1]},
              segs |-> {SegmentOf("u1", 1)},
              rows |-> ListRows(SegmentOf("u1", 1), choices),
              cvs |-> {RootVersion},
              uvs |-> {[unit |-> "u1", container_entity_version |-> RootVersion]},
              svs |-> {},
              variants |-> {},
              draft |-> dr \cup {[entity |-> "u1", version_num |-> 1]},
              published |-> pu]

(* resolve(root, mode) *)
DoResolve ==
    \E cv \in db.cvs, mode \in Modes :
        LET r == Resolve(db, cv, mode)
        IN  /\ out' = [root |-> <<cv.container, cv.version_num>>, mode |-> mode,
                       policy |-> {}, error |-> r.error, entries |-> r.entries]
            /\ UNCHANGED <<db, txn>>

(* set_draft(entity, version) *)
SetDraft ==
    \E v \in db.pevs :
        /\ v.entity \in Targets
        /\ db' = [db EXCEPT !.draft = SetPointers(@, {v})]
        /\ out' = NoOutput
        /\ UNCHANGED txn

(* publishing: the published pointer takes the draft's version *)
Publish ==
    \E e \in Targets :
        /\ Pointer(db.draft, e) # NULL
        /\ db' = [db EXCEPT !.published = SetPointers(@, {Pointer(db.draft, e)})]
        /\ out' = NoOutput
        /\ UNCHANGED txn

ResolveNext == DoResolve \/ SetDraft \/ Publish

SpecResolve == ResolveInit /\ [][ResolveNext]_vars

OutputOf(cv) == out.root = <<cv.container, cv.version_num>>

EntriesAt(pos) == {i \in 1..Len(out.entries) : out.entries[i].position = pos}

(* C4: a resolution holds, for every pinned row of its root, exactly the pinned
   version at that row's position, in Draft and in Published mode, whatever the
   target's pointers are at the time. *)
C4_PinPrecedence ==
    \A cv \in db.cvs : OutputOf(cv) =>
        \A r \in {x \in db.rows : x.segment = cv.seg /\ x.version # NULL} :
            /\ out.error = "none" =>
                    /\ EntriesAt(r.order_num) # {}
                    /\ \A i \in EntriesAt(r.order_num) :
                            out.entries[i].resolved_version = r.version
            /\ \A mode \in Modes : RowVersion(db, r, mode) = r.version

(* a Published resolution of a row pinned to a version that is neither the
   draft nor the published version of its target *)
C4_Witness ==
    /\ out.mode = "Published"
    /\ out.error = "none"
    /\ \E r \in db.rows :
        /\ r.version # NULL
        /\ Pointer(db.draft, r.entity) \notin {NULL, r.version}
        /\ Pointer(db.published, r.entity) \notin {NULL, r.version}
        /\ \E i \in EntriesAt(r.order_num) : out.entries[i].resolved_version = r.version

(* C5: an unpinned row resolves to its target's draft version in Draft mode and
   to its published version in Published mode; with the published pointer
   unset the row has no entry in the Published output (and no error is raised
   for it) while it has one in the Draft output. *)
C5_Unpinned ==
    \A cv \in db.cvs : OutputOf(cv) =>
        \A r \in {x \in db.rows : x.segment = cv.seg /\ x.version = NULL} :
            LET dv == Pointer(db.draft, r.entity)
                pv == Pointer(db.published, r.entity)
            IN  /\ out.mode = "Published" =>
                    /\ out.error = "none"
                    /\ pv = NULL => EntriesAt(r.order_num) = {}
                    /\ pv # NULL =>
                        /\ EntriesAt(r.order_num) # {}
                        /\ \A i \in EntriesAt(r.order_num) :
                                out.entries[i].resolved_version = pv
                /\ (out.mode = "Draft" /\ out.error = "none") =>
                    /\ EntriesAt(r.order_num) # {}
                    /\ \A i \in EntriesAt(r.order_num) :
                            out.entries[i].resolved_version = dv
                /\ (out.mode = "Draft" /\ out.error # "none") =>
                    \E x \in db.rows : /\ x.segment = cv.seg
                                        /\ x.version = NULL
                                        /\ Pointer(db.draft, x.entity) = NULL

(* a Published resolution that left out an unpinned row of an unpublished target
   whose draft is set *)
C5_Witness ==
    /\ out.mode = "Published"
    /\ \E r \in db.rows :
        /\ r.version = NULL
        /\ Pointer(db.published, r.entity) = NULL
        /\ Pointer(db.draft, r.entity) # NULL
        /\ EntriesAt(r.order_num) = {}
    /\ \E r \in db.rows :
        /\ r.version = NULL
        /\ Pointer(db.published, r.entity) # NULL
        /\ Pointer(db.published, r.entity) # Pointer(db.draft, r.entity)
        /\ EntriesAt(r.order_num) # {}

(* C6: the entries of a resolution are in strictly increasing position order,
   each is the entry of the row at its position, and every row that stands for
   a version has its own entry, rows naming the same target included. *)
C6_Order ==
    \A cv \in db.cvs : (OutputOf(cv) /\ out.error = "none") =>
        LET rows == {x \in db.rows : x.segment = cv.seg}
            n == Len(out.entries)
        IN  /\ \A i \in 1..n, j \in 1..n :
                i < j => out.entries[i].position < out.entries[j].position
            /\ \A i \in 1..n :
                \E r \in rows : /\ r.order_num = out.entries[i].position
                                /\ r.entity = out.entries[i].target_entity
            /\ \A r \in rows :
                RowVersion(db, r, out.mode) # NULL => EntriesAt(r.order_num) # {}

(* a resolution with two entries for the same target *)
C6_Witness ==
    /\ out.error = "none"
    /\ Len(out.entries) >= 2
    /\ out.entries[1].target_entity = out.entries[2].target_entity
    /\ out.entries[1].position = 0
    /\ out.entries[2].position = 1

----------------------------------------------------------------------------
(* Properties of the units API *)

RowsOfSegment(d, seg) ==
    {<<r.order_num, r.entity, r.version>> : r \in {x \in d.rows : x.segment = seg}}

(* C1: every container version that exists keeps existing, with the same set of
   (position, target entity, pinned version) rows, across every step of every
   operation, later version creations on its container included. *)
C1_Immutable ==
    [][\A v \in db.cvs :
          /\ v \in db'.cvs
          /\ RowsOfSegment(db', v.seg) = RowsOfSegment(db, v.seg)]_vars

(* two versions of one container, the later one with a different membership *)
C1_Witness ==
    \E v \in db.cvs, w \in db.cvs :
        /\ v.container = w.container
        /\ v.version_num < w.version_num
        /\ RowsOfSegment(db, v.seg) # {}
        /\ RowsOfSegment(db, w.seg) # RowsOfSegment(db, v.seg)

UniqueVersionNums(d) ==
    \A v \in d.cvs, w \in d.cvs :
        (v.container = w.container /\ v.version_num = w.version_num) => v = w

IsNext(p) == txn[p].op = "create_next_unit_version"

(* C2: create_next_unit_version assigns 1 + the largest version number of the
   container; the version it commits carries a number no committed version of
   the container has, and the number before it is taken (none is skipped); no
   two committed versions of a container ever share a number. *)
C2_Monotonic ==
    [][/\ \A p \in Editors :
            (IsNext(p) /\ txn[p].pc = "cv" /\ txn'[p].pc = "uv") =>
                txn'[p].num = 1 + MaxOf(VersionNums(db, txn[p].unit))
       /\ \A p \in Editors :
            (IsNext(p) /\ txn[p].pc = "commit" /\ txn'[p].pc = "idle"
                /\ db'.cvs # db.cvs) =>
                LET n == txn[p].num
                    old == VersionNums(db, txn[p].unit)
                IN  /\ n \notin old
                    /\ n = 1 \/ (n - 1) \in old
                    /\ VersionNums(db', txn[p].unit) = old \cup {n}
       /\ UniqueVersionNums(db')]_vars

(* the loser of a race: its number was committed by another editor meanwhile *)
C2_Witness ==
    \E p \in Editors :
        /\ IsNext(p)
        /\ txn[p].pc = "commit"
        /\ txn[p].num > 1
        /\ VersionConflict(db, txn[p].unit, txn[p].num)

(* what a reader may find: versions with their list, rows' lists, unit versions
   with their container version, units with their entity *)
Consistent(d) ==
    /\ \A v \in d.cvs :
        /\ v.seg \in d.segs
        /\ [entity |-> v.container, version_num |-> v.version_num] \in d.pevs
        /\ [unit |-> v.container, container_entity_version |-> v] \in d.uvs
    /\ \A s \in d.segs : \E v \in d.cvs : v.seg = s
    /\ \A r \in d.rows : r.segment \in d.segs
    /\ \A u \in d.uvs : u.container_entity_version \in d.cvs
    /\ d.units \subseteq d.ents

CompleteCommit(p) ==
    LET t == txn[p]
        seg == SegmentOf(t.unit, t.num)
        cv == [container |-> t.unit, version_num |-> t.num, title |-> t.title,
               created_by |-> p, seg |-> seg]
        unitOnly == t.op = "create_unit"
        withUnit == t.op \in {"create_unit", "create_unit_and_version"}
    IN  /\ db'.cvs = db.cvs \cup (IF unitOnly THEN {} ELSE {cv})
        /\ db'.segs = db.segs \cup (IF unitOnly THEN {} ELSE {seg})
        /\ db'.rows = db.rows \cup (IF unitOnly THEN {} ELSE RowsFor(seg, t.pks))
        /\ db'.uvs = db.uvs \cup
                (IF unitOnly THEN {}
                 ELSE {[unit |-> t.unit, container_entity_version |-> cv]})
        /\ db'.units = db.units \cup (IF withUnit THEN {t.unit} ELSE {})
        /\ db'.ents = db.ents \cup (IF withUnit THEN {t.unit} ELSE {})

(* C3: the committed tables change only when a transaction commits, and then by
   the whole of what its call creates (list, rows at 0..n-1, container version,
   unit version, and the unit for create_unit_and_version); a step that fails
   changes nothing; every state a reader sees is consistent. *)
C3_Atomic ==
    [][/\ db' # db =>
            \E p \in Editors :
                /\ txn[p].pc = "commit"
                /\ txn'[p].pc = "idle"
                /\ CompleteCommit(p)
       /\ Consistent(db')]_vars

(* a transaction that staged a list with a row, a version and a unit version,
   none of them visible *)
C3_Witness ==
    \E p \in Editors :
        /\ txn[p].pc = "commit"
        /\ txn[p].staged.rows # {}
        /\ txn[p].staged.cvs # {}
        /\ txn[p].staged.uvs # {}
        /\ txn[p].staged.segs \cap db.segs = {}
        /\ ~VersionConflict(db, txn[p].unit, txn[p].num)

----------------------------------------------------------------------------
(* Lists with pinned rows, and deletion of their targets *)

(* entity and version are foreign keys: the database refuses a row whose
   entity, or whose version, is not there *)
NoForeignKeys(d, row) == TRUE

ForeignKeysHold(d, row) ==
    /\ row.entity \in d.ents
    /\ row.version = NULL \/ row.version \in d.pevs

(* a pinned version has to be a version of the row's target *)
AnyPin(row) == TRUE

PinBelongs(row) == row.version = NULL \/ row.version.entity = row.entity

RowsValid(d, choices) ==
    \A i \in 1..Len(choices) : ForeignKeysHold(d, choices[i]) /\ PinBelongs(choices[i])

(* on_delete=models.RESTRICT of SegmentRow.entity *)
EntityUnrestricted(d, e) == FALSE

EntityRestricted(d, e) ==
    \E r \in d.rows : r.entity = e \/ r.version.entity = e

(* on_delete=models.RESTRICT of SegmentRow.version *)
VersionUnrestricted(d, v) == FALSE

VersionRestricted(d, v) == \E r \in d.rows : r.version = v

MaxLists == 2

(* the component that gets new versions *)
Revised == {"a"}

(* what a caller may pass as a row: any target, existing or not, and any
   version, of that target or not, existing or not *)
RowInputs ==
    {[entity |-> e, version |-> v] :
        e \in Targets \cup {MissingPk},
        v \in {NULL} \cup {[entity |-> x, version_num |-> n] :
                                x \in Targets, n \in 1..MaxEntityVersions}}

StoreInit ==
    /\ txn = [p \in Editors |-> Idle]
    /\ out = NoOutput
    /\ db = [EmptyWrites EXCEPT
                !.ents = Targets \cup {"u1"},
                !.units = {"u1"},
                !.pevs = {[entity |-> e, version_num |-> 1] : e \in Targets},
                !.draft = {[entity |-> e, version_num |-> 1] : e \in Targets}]

(* create_next_version(container, rows, metadata), as one transaction *)
CreateVersionOf(c, choices) ==
        LET n == NextVersionNum(db, c)
            seg == SegmentOf(c, n)
            cv == [container |-> c, version_num |-> n, title |-> "t1",
                   created_by |-> "e1", seg |-> seg]
        IN  /\ Cardinality(db.cvs) < MaxLists
            /\ UNCHANGED txn
            /\ IF RowsValid(db, choices)
               THEN /\ db' = Apply(db, [EmptyWrites EXCEPT
                                !.segs = {seg},
                                !.rows = ListRows(seg, choices),
                                !.pevs = {[entity |-> c, version_num |-> n]},
                                !.cvs = {cv},
                                !.uvs = {[unit |-> c, container_entity_version |-> cv]},
                                !.draft = {[entity |-> c, version_num |-> n]}])
                    /\ out' = [NoOutput EXCEPT !.mode = "create",
                                               !.root = <<c, n>>]
               ELSE /\ db' = db
                    /\ out' = [NoOutput EXCEPT !.mode = "create",
                                               !.error = "ReferentialError",
                                               !.entries = choices]

CreateVersion ==
    \E c \in db.units, choices \in SeqsUpTo(RowInputs, 1) :
        CreateVersionOf(c, choices)

(* create_version(entity, version_num) of the substrate, which sets the draft *)
CreateEntityVersion ==
    \E e \in Revised \cap db.ents :
        LET n == 1 + MaxOf({v.version_num : v \in {x \in db.pevs : x.entity = e}})
            v == [entity |-> e, version_num |-> n]
        IN  /\ n <= MaxEntityVersions
            /\ db' = [db EXCEPT !.pevs = @ \cup {v}, !.draft = SetPointers(@, {v})]
            /\ out' = NoOutput
            /\ UNCHANGED txn

(* deleting a publishable entity, with its versions and pointers *)
DeleteEntity ==
    \E e \in Targets \cap db.ents :
        /\ ~EntityRestricted(db, e)
        /\ db' = [db EXCEPT !.ents = @ \ {e},
                            !.pevs = {v \in @ : v.entity # e},
                            !.draft = {v \in @ : v.entity # e},
                            !.published = {v \in @ : v.entity # e}]
        /\ out' = NoOutput
        /\ UNCHANGED txn

(* deleting one version of a publishable entity; a pointer to it is unset *)
DeleteEntityVersion ==
    \E v \in db.pevs :
        /\ v.entity \in Targets
        /\ ~VersionRestricted(db, v)
        /\ db' = [db EXCEPT !.pevs = @ \ {v},
                            !.draft = @ \ {v},
                            !.published = @ \ {v}]
        /\ out' = NoOutput
        /\ UNCHANGED txn

StoreNext ==
    \/ CreateVersion
    \/ CreateEntityVersion
    \/ DeleteEntity
    \/ DeleteEntityVersion

SpecStore == StoreInit /\ [][StoreNext]_vars

Refused == out'.mode = "create" /\ out'.error = "ReferentialError"

RowOk(d, row) ==
    /\ row.entity \in d.ents
    /\ row.version # NULL => (row.version \in d.pevs /\ row.version.entity = row.entity)

(* C9: a version creation that fails with ReferentialError stores nothing and
   has a row that names a target that does not exist or pins a version that is
   not a version of the row's target; one that succeeds stores only rows with
   an existing target and, when pinned, a version of that target; in every
   state each stored row is such a row. *)
C9_Referential ==
    [][/\ Refused =>
            /\ db' = db
            /\ \E i \in 1..Len(out'.entries) : ~RowOk(db, out'.entries[i])
       /\ (out'.mode = "create" /\ ~Refused) =>
            /\ db'.segs # db.segs
            /\ \A r \in db'.rows \ db.rows : RowOk(db, r)
       /\ \A r \in db'.rows : RowOk(db', r)]_vars

(* a refused creation whose row pins an existing version of another entity,
   next to a stored pinned row *)
C9_Witness ==
    /\ out.mode = "create"
    /\ out.error = "ReferentialError"
    /\ \E i \in 1..Len(out.entries) :
        /\ out.entries[i].entity \in db.ents
        /\ out.entries[i].version \in db.pevs
        /\ out.entries[i].version.entity # out.entries[i].entity
    /\ \E r \in db.rows : r.version # NULL

(* C10: an entity is deleted only when no row references it, a version only
   when no row pins it, so no stored row names a missing target; a version no
   row pins can be deleted, rows that reference its entity unpinned or not. *)
C10_Restrict ==
    /\ [][/\ \A e \in db.ents \ db'.ents : \A r \in db.rows : r.entity # e
          /\ \A v \in db.pevs \ db'.pevs : \A r \in db.rows : r.version # v
          /\ db.rows \subseteq db'.rows
          /\ \A r \in db'.rows : r.entity \in db'.ents]_vars
    /\ [](\A v \in db.pevs :
            (v.entity \in Targets /\ \A r \in db.rows : r.version # v) =>
                ENABLED (/\ DeleteEntityVersion
                         /\ v \notin db'.pevs))

(* an unpinned row whose target lost a version, and a pinned row, whose
   version and target are kept *)
C10_Witness ==
    /\ \E r \in db.rows :
        /\ r.version = NULL
        /\ r.entity \in db.ents
        /\ [entity |-> r.entity, version_num |-> 1] \notin db.pevs
    /\ \E r \in db.rows : r.version # NULL /\ r.version \in db.pevs

----------------------------------------------------------------------------
(* Deep resolution: lists whose rows name containers *)

MaxDepth == 4

Containers == {"u1", "u2"}

(* the active recursion path holds the (entity, version) pairs being resolved *)
NeverOnPath(path, v) == FALSE

OnPath(path, v) == v \in path

ContainerVersionOf(d, v) ==
    CHOOSE cv \in d.cvs : cv.container = v.entity /\ cv.version_num = v.version_num

IsContainerVersion(d, v) ==
    \E cv \in d.cvs : cv.container = v.entity /\ cv.version_num = v.version_num

RECURSIVE DeepResolve(_, _, _, _, _)
RECURSIVE DeepRows(_, _, _, _, _)

(* rows in order, a container target resolved in turn, the first error wins *)
DeepRows(d, rows, mode, path, depth) ==
    IF rows = <<>> THEN [error |-> "none", entries |-> <<>>]
    ELSE LET row == Head(rows)
             v == RowVersion(d, row, mode)
         IN  IF v = NULL /\ mode = "Draft"
             THEN [error |-> "InconsistentDraftError", entries |-> <<>>]
             ELSE IF v = NULL THEN DeepRows(d, Tail(rows), mode, path, depth)
             ELSE LET child == IF IsContainerVersion(d, v)
                               THEN DeepResolve(d, v, mode, path, depth + 1)
                               ELSE [error |-> "none", entries |-> <<>>]
                  IN  IF child.error # "none"
                      THEN [error |-> child.error, entries |-> <<>>]
                      ELSE LET rest == DeepRows(d, Tail(rows), mode, path, depth)
                           IN  IF rest.error # "none" THEN rest
                               ELSE [rest EXCEPT !.entries =
                                        <<[position |-> row.order_num,
                                           target_entity |-> row.entity,
                                           resolved_version |-> v,
                                           children |-> child.entries]>> \o @]

DeepResolve(d, v, mode, path, depth) ==
    IF depth > MaxDepth THEN [error |-> "RecursionLimit", entries |-> <<>>]
    ELSE IF OnPath(path, v) THEN [error |-> "CycleError", entries |-> <<>>]
    ELSE DeepRows(d, SegmentRows(d, ContainerVersionOf(d, v).seg), mode,
                  path \cup {v}, depth)

(* a row of a container may name a container or the component, unpinned or
   pinned to a version that exists *)
DeepRowInputs ==
    UNION {{[entity |-> e, version |-> v] :
                v \in {NULL} \cup {x \in db.pevs : x.entity = e}} :
            e \in Containers \cup {"a"}}

DeepInit ==
    /\ txn = [p \in Editors |-> Idle]
    /\ out = NoOutput
    /\ db = [EmptyWrites EXCEPT
                !.ents = Containers \cup {"a"},
                !.units = Containers,
                !.pevs = {[entity |-> "a", version_num |-> 1]},
                !.draft = {[entity |-> "a", version_num |-> 1]}]

DeepCreateVersion ==
    \E c \in db.units, choices \in SeqsUpTo(DeepRowInputs, 1) :
        CreateVersionOf(c, choices)

(* publishing a container *)
PublishContainer ==
    \E e \in db.units :
        /\ Pointer(db.draft, e) # NULL
        /\ db' = [db EXCEPT !.published = SetPointers(@, {Pointer(db.draft, e)})]
        /\ out' = NoOutput
        /\ UNCHANGED txn

(* resolve(root, mode, deep) *)
DoDeepResolve ==
    \E cv \in db.cvs, mode \in Modes :
        LET v == [entity |-> cv.container, version_num |-> cv.version_num]
            r == DeepResolve(db, v, mode, {}, 1)
        IN  /\ out' = [root |-> <<cv.container, cv.version_num>>, mode |-> mode,
                       policy |-> {}, error |-> r.error, entries |-> r.entries]
            /\ UNCHANGED <<db, txn>>

DeepNext == DeepCreateVersion \/ PublishContainer \/ DoDeepResolve

SpecDeep == DeepInit /\ [][DeepNext]_vars

(* the container versions that the rows of container version v stand for *)
ChildVersions(d, v, mode) ==
    {w \in d.pevs :
        /\ IsContainerVersion(d, w)
        /\ \E r \in d.rows : /\ r.segment = ContainerVersionOf(d, v).seg
                             /\ RowVersion(d, r, mode) = w}

RECURSIVE Nested(_, _, _)
Nested(d, S, mode) ==
    LET more == S \cup UNION {ChildVersions(d, v, mode) : v \in S}
    IN  IF more = S THEN S ELSE Nested(d, more, mode)

References(d, v, mode) == Nested(d, ChildVersions(d, v, mode), mode)

(* C7: deep resolution of a container version that its own list references,
   directly or through nested containers, ends with CycleError; no deep
   resolution exceeds the recursion limit, and CycleError is raised only when
   a container version under the root references itself. *)
C7_CycleSafe ==
    out.mode \in Modes =>
        LET root == [entity |-> out.root[1], version_num |-> out.root[2]]
        IN  /\ out.error # "RecursionLimit"
            /\ root \in References(db, root, out.mode) => out.error = "CycleError"
            /\ out.error = "CycleError" =>
                \E v \in References(db, root, out.mode) \cup {root} :
                    v \in References(db, v, out.mode)

(* a root that comes back to itself through another container *)
C7_Witness ==
    /\ out.mode \in Modes
    /\ out.error = "CycleError"
    /\ LET root == [entity |-> out.root[1], version_num |-> out.root[2]]
       IN  /\ root \notin ChildVersions(db, root, out.mode)
           /\ root \in References(db, root, out.mode)

----------------------------------------------------------------------------
(* Selectors: one selector version, its variants, and the caller's policy *)

VariantSegments == {<<"A", 0>>, <<"B", 0>>}

SelectorRoot == <<"s1", 1>>

(* SelectorVersion.segment, the selector version's own segment *)
SelectorSegment(d, variant) ==
    (CHOOSE sv \in d.svs : <<sv.selector, sv.version_num>> = variant.selector_version).segment

(* Variant.segment, one-to-one: the list a variant stands for *)
VariantSegment(d, variant) == variant.segment

VariantsOf(d, sv) ==
    {x \in d.variants : x.selector_version = <<sv.selector, sv.version_num>>}

(* policy: the variants the caller's policy matches for this call *)
ResolveSelectorVersion(d, sv, mode, policy) ==
    LET chosen == {x \in VariantsOf(d, sv) : x.segment \in policy}
    IN  IF Cardinality(chosen) # 1
        THEN [error |-> "SelectorUnresolvedError", entries |-> <<>>]
        ELSE ResolveRows(d, SegmentRows(d, VariantSegment(d, CHOOSE x \in chosen : TRUE)),
                         mode)

(* a selector version with variants A and B, each with any valid list of at
   most one row over the two components *)
SelectorInit ==
    /\ txn = [p \in Editors |-> Idle]
    /\ out = NoOutput
    /\ \E la \in SeqsUpTo(RowChoices, 1), lb \in SeqsUpTo(RowChoices, 1) :
        db = [EmptyWrites EXCEPT
                !.ents = Targets \cup {"s1"},
                !.pevs = {[entity |-> e, version_num |-> n] :
                            e \in Targets, n \in 1..MaxEntityVersions}
                         \cup {[entity |-> "s1", version_num |-> 1]},
                !.segs = VariantSegments \cup {<<"S", 0>>},
                !.rows = ListRows(<<"A", 0>>, la) \cup ListRows(<<"B", 0>>, lb),
                !.svs = {[selector |-> "s1", version_num |-> 1, order_num |-> 0,
                          segment |-> <<"S", 0>>]},
                !.variants = {[selector_version |-> SelectorRoot, segment |-> g] :
                                g \in VariantSegments},
                !.draft = {[entity |-> e, version_num |-> 1] : e \in Targets \cup {"s1"}}]

(* resolve(root, mode, variant_policy) on a selector version *)
DoResolveSelector ==
    \E sv \in db.svs, mode \in Modes, policy \in SUBSET VariantSegments :
        LET r == ResolveSelectorVersion(db, sv, mode, policy)
        IN  /\ out' = [root |-> <<sv.selector, sv.version_num>>, mode |-> mode,
                       policy |-> policy, error |-> r.error, entries |-> r.entries]
            /\ UNCHANGED <<db, txn>>

SelectorNext == DoResolveSelector \/ SetDraft \/ Publish

SpecSelector == SelectorInit /\ [][SelectorNext]_vars

(* C8: a policy that matches exactly one of the variants A and B resolves to
   the resolution of that variant's list and of no other; a policy that
   matches none or both fails with SelectorUnresolvedError, and only such a
   policy does. *)
C8_VariantExclusive ==
    out.root = SelectorRoot =>
        /\ Cardinality(out.policy) # 1 <=> out.error = "SelectorUnresolvedError"
        /\ \A g \in VariantSegments : out.policy = {g} =>
            LET rows == {r \in db.rows : r.segment = g}
            IN  /\ out.error = "none" =>
                    /\ \A i \in 1..Len(out.entries) :
                        \E r \in rows :
                            /\ r.order_num = out.entries[i].position
                            /\ r.entity = out.entries[i].target_entity
                            /\ RowVersion(db, r, out.mode) =
                                    out.entries[i].resolved_version
                    /\ \A r \in rows :
                        RowVersion(db, r, out.mode) # NULL => EntriesAt(r.order_num) # {}
                    /\ Len(out.entries) <= Cardinality(rows)
                /\ out.error # "none" =>
                    \E r \in rows : RowVersion(db, r, out.mode) = NULL

(* variant B chosen, its list resolved, variant A's list different *)
C8_Witness ==
    /\ out.root = SelectorRoot
    /\ out.policy = {<<"B", 0>>}
    /\ out.error = "none"
    /\ Len(out.entries) = 1
    /\ \A r \in db.rows : r.segment = <<"A", 0>> =>
            r.entity # out.entries[1].target_entity
====
